---- MODULE Spec2Model ----
(***************************************************************************)
(* Model of the calendar dialogue engine (UCalendarDialogueComponent) of   *)
(* the AI companion client.  Strings are sequences of one-character        *)
(* strings; literal fragments of generated texts are single tokens.        *)
(* The listeners bound to OnAskQuestion, OnEventCreated and                *)
(* OnFlowCancelled do not call back into the component, except in          *)
(* SpecReentrant.  The answers are                                         *)
(* short enough that FCString::Atoi stays within int32 in Spec, SpecText   *)
(* and SpecRouter, so that these fix the build; SpecParse gives answers    *)
(* with long digit runs to both kinds of build, SpecWord clock hours       *)
(* above 23 to builds with and without check().                            *)
(* The session's message router (AAICompanionManager) is modelled with     *)
(* the transport it listens to; Spec leaves it as constructed, SpecRouter  *)
(* drives it.                                                              *)
(***************************************************************************)
EXTENDS Integers, Sequences, FiniteSets, TLC

VARIABLES
  CurrentState,   \* UCalendarDialogueComponent::CurrentState
  EventData,      \* UCalendarDialogueComponent::EventData
  FoundActors,    \* number of AAICompanionManager actors GetAllActorsOfClass finds
  Now,            \* the wall clock read by FDateTime::Now()
  lastCall,       \* the public call made last: operation, argument, state before it
  asked,          \* question texts broadcast on OnAskQuestion by the last call
  created,        \* records broadcast on OnEventCreated by the last call
  cancelled,      \* number of OnFlowCancelled broadcasts of the last call
  sent,           \* payloads passed to Manager->SendMessageToBackend by the last call
  flowConfirmed,  \* history: the flow started last got an affirmative answer in Confirming
  flowHandoffs,   \* history: number of hand-offs made for the flow started last
  entryQuestion,  \* history: the question broadcast when CurrentState was entered
  run,            \* history: progress of the calls along the scripted run HappyPath
  Listeners,      \* what is bound to the delegates: whether the listener of
                  \*   OnEventCreated, of OnFlowCancelled, calls StartEventCreation
  Engine,         \* the engine build the component runs in, and whether it still runs:
                  \*   AtoiSaturates  FCString::Atoi of a digit run above MAX_int32 gives
                  \*                  MAX_int32 (_wtoi of the Microsoft runtime); if not,
                  \*                  the low 32 bits of the value (wcstol narrowed to int32)
                  \*   DoCheck        check() is compiled in (DO_CHECK; off in shipping builds)
                  \*   Aborted        a check() has failed: the process has stopped
  mgr             \* the AAICompanionManager actor and its transport, a record:
                  \*   bIsConnected   AAICompanionManager::bIsConnected
                  \*   bEnableMemory  AAICompanionManager::bEnableMemory: a MemoryManager exists
                  \*   wsConnected    what WebSocketManager->IsConnected() returns
                  \*   timers         number of test-message timers set and not yet fired
                  \*   lastEvent      the event the manager handled last
                  \*   wsSent         payloads passed to WebSocketManager->SendMessage by the last event
                  \*   aiResponses    texts broadcast on OnAIResponseReceived by the last event
                  \*   statusChanges  values broadcast on OnConnectionStatusChanged by the last event
                  \*   conversations  MemoryManager->AddConversation calls of the last event
                  \*   nEstablished   history: number of times the connection was established
                  \*   nRegisters     history: number of register payloads sent

dlgVars == <<CurrentState, EventData, FoundActors, Now, lastCall, asked, created,
             cancelled, sent, flowConfirmed, flowHandoffs, entryQuestion, run,
             Listeners, Engine>>

vars == <<CurrentState, EventData, FoundActors, Now, lastCall, asked, created,
          cancelled, sent, flowConfirmed, flowHandoffs, entryQuestion, run,
          Listeners, Engine, mgr>>

\* ------------------------------------------------------------------------
\* Bounds
\* ------------------------------------------------------------------------
MaxDay == 2
MaxTimers == 1
MaxConnects == 2
MaxRegisters == 2

\* ------------------------------------------------------------------------
\* Characters and strings
\* ------------------------------------------------------------------------
UpperChars ==
  <<"A","B","C","D","E","F","G","H","I","J","K","L","M",
    "N","O","P","Q","R","S","T","U","V","W","X","Y","Z">>

LowerChars ==
  <<"a","b","c","d","e","f","g","h","i","j","k","l","m",
    "n","o","p","q","r","s","t","u","v","w","x","y","z">>

DigitChars == <<"0","1","2","3","4","5","6","7","8","9">>

IsDigit(c) == \E i \in 1..10 : DigitChars[i] = c

DigitVal(c) == (CHOOSE i \in 1..10 : DigitChars[i] = c) - 1

IsWhitespace(c) == c = " "

ToLowerChar(c) ==
  IF \E i \in 1..26 : UpperChars[i] = c
  THEN LowerChars[CHOOSE i \in 1..26 : UpperChars[i] = c]
  ELSE c

ToLower(s) == [i \in 1..Len(s) |-> ToLowerChar(s[i])]

RECURSIVE TrimStart(_)
TrimStart(s) ==
  IF s # <<>> /\ IsWhitespace(Head(s)) THEN TrimStart(Tail(s)) ELSE s

RECURSIVE TrimEnd(_)
TrimEnd(s) ==
  IF s # <<>> /\ IsWhitespace(s[Len(s)])
  THEN TrimEnd(SubSeq(s, 1, Len(s) - 1))
  ELSE s

TrimStartAndEnd(s) == TrimEnd(TrimStart(s))

Contains(s, sub) ==
  \E i \in 1..(Len(s) - Len(sub) + 1) : SubSeq(s, i, i + Len(sub) - 1) = sub

\* int32: the largest value, and the half-word the wrapped arithmetic works in
MaxInt32 == 2147483647

HalfWord == 65536

\* the int32 whose bit pattern is hi * 2^16 + lo
ToInt32(hi, lo) ==
  IF hi < HalfWord \div 2 THEN hi * HalfWord + lo ELSE (hi - HalfWord) * HalfWord + lo

\* the value of the digits ds, or -1 when it is above MAX_int32
RECURSIVE AtoiExact(_)
AtoiExact(ds) ==
  IF ds = <<>> THEN 0
  ELSE LET p == AtoiExact(SubSeq(ds, 1, Len(ds) - 1))
           d == DigitVal(ds[Len(ds)])
       IN  IF p = -1 \/ p > (MaxInt32 - d) \div 10 THEN -1 ELSE 10 * p + d

\* the low 32 bits of the value of the digits ds, as two half-words
RECURSIVE AtoiWrapped(_)
AtoiWrapped(ds) ==
  IF ds = <<>> THEN [hi |-> 0, lo |-> 0]
  ELSE LET p == AtoiWrapped(SubSeq(ds, 1, Len(ds) - 1))
           l == p.lo * 10 + DigitVal(ds[Len(ds)])
       IN  [hi |-> (p.hi * 10 + l \div HalfWord) % HalfWord, lo |-> l % HalfWord]

\* FCString::Atoi of a string of digits
Atoi(ds) ==
  LET v == AtoiExact(ds)
      w == AtoiWrapped(ds)
  IN  IF v # -1 THEN v
      ELSE IF Engine.AtoiSaturates THEN MaxInt32
      ELSE ToInt32(w.hi, w.lo)

\* a * b in int32 for a >= 0 and 0 <= b < 2^15: the product's low 32 bits
Mul32(a, b) ==
  LET l == (a % HalfWord) * b
  IN  ToInt32(((a \div HalfWord) * b + l \div HalfWord) % HalfWord, l % HalfWord)

RECURSIVE IntToStr(_)
IntToStr(n) ==
  IF n < 10 THEN <<DigitChars[n + 1]>>
  ELSE IntToStr(n \div 10) \o <<DigitChars[(n % 10) + 1]>>

TwoDigits(n) == IF n < 10 THEN <<"0">> \o IntToStr(n) ELSE IntToStr(n)

\* ------------------------------------------------------------------------
\* Answer texts the user may give
\* ------------------------------------------------------------------------
sEmpty == <<>>
sDentist == <<"D","e","n","t","i","s","t">>
sTomorrow2pm == <<"t","o","m","o","r","r","o","w"," ","a","t"," ","2","p","m">>
sOneHour == <<"1"," ","h","o","u","r">>
sNone == <<"n","o","n","e">>
sEight == <<"8">>
sYes == <<"y","e","s">>
sNo == <<"n","o">>
sOkPadded == <<" ","O","K"," ">>

\* texts with surrounding blanks and with a double quote
sSpaceX == <<" ","x">>
sQuoted == <<"a","\"","b">>

\* texts with digit runs and units, with relative dates, with skip words
sMixed == <<"a","b","c"," ","2","p","m"," ","a","n","d"," ","3","0"," ","m","i","n">>
sZeroHours == <<"0"," ","h","o","u","r","s">>
sBigNumber == <<"4","2","9","4","9","6","7","3","0","1">>
sBigHours == <<"1","0","0","0","0","0","0","0","0"," ","h","o","u","r","s">>
sEleven == <<"1","1">>
sToday == <<"T","o","d","a","y">>
sTodayAt25pm == <<"t","o","d","a","y"," ","a","t"," ","2","5","p","m">>
sNonePadded == <<" ","N","o","n","e"," ">>
sSkip == <<"s","k","i","p">>

ParseAnswers ==
  {sTomorrow2pm, sMixed, sOneHour, sZeroHours, sBigNumber, sBigHours, sEleven, sYes}

WordAnswers ==
  {sTomorrow2pm, sToday, sTodayAt25pm, sNonePadded, sSkip, sEight, sYes}

TextAnswers == {sSpaceX, sQuoted, sTomorrow2pm, sEight, sYes}

Answers == {sEmpty, sDentist, sTomorrow2pm, sOneHour, sNone, sEight, sYes, sNo, sOkPadded}

\* ------------------------------------------------------------------------
\* Types of the component
\* ------------------------------------------------------------------------
ECalendarDialogueState ==
  <<"Idle", "AskingEventName", "AskingDateTime", "AskingDuration", "AskingLocation",
    "AskingNotes", "AskingPriority", "Confirming", "Creating", "Complete">>

MinValue == [day |-> 0, hour |-> 0, minute |-> 0]

FCalendarEventData ==
  [EventName |-> <<>>, DateTime |-> MinValue, DurationMinutes |-> 60,
   Location |-> <<>>, Notes |-> <<>>, Priority |-> 5, bIsValid |-> FALSE]

\* ------------------------------------------------------------------------
\* Helpers
\* ------------------------------------------------------------------------
RECURSIVE ExtractDigits(_, _)
ExtractDigits(Input, NumberStr) ==
  IF Input = <<>> THEN NumberStr
  ELSE IF IsDigit(Head(Input)) THEN ExtractDigits(Tail(Input), Append(NumberStr, Head(Input)))
  ELSE IF NumberStr # <<>> THEN NumberStr
  ELSE ExtractDigits(Tail(Input), NumberStr)

ExtractNumber(Input) ==
  LET NumberStr == ExtractDigits(Input, <<>>)
  IN  IF NumberStr = <<>> THEN 0 ELSE Atoi(NumberStr)

\* what a call that failed a check() returns in place of a date
CheckFailed == [day |-> -1, hour |-> -1, minute |-> -1]

\* FDateTime(Year, Month, Day, Hour, 0, 0) on the calendar day `day`; the
\* engine's constructor has check(Validate(...)), which fails for an hour
\* outside 0..23; without the check the ticks are the day's plus Hour hours.
MakeDateTime(day, Hour) ==
  IF Hour \in 0..23 THEN [day |-> day, hour |-> Hour, minute |-> 0]
  ELSE IF Engine.DoCheck THEN CheckFailed
  ELSE [day |-> day + (Hour \div 24), hour |-> Hour % 24, minute |-> 0]

\* ExtractHour without the 12 hours added for an afternoon time
ExtractHourNoPm(Lower) ==
  IF Contains(Lower, <<"p","m">>) \/ Contains(Lower, <<"a","m">>)
  THEN ExtractNumber(Lower)
  ELSE 12

ExtractHour(Lower) ==
  IF Contains(Lower, <<"p","m">>)
  THEN LET Hour == ExtractNumber(Lower) IN IF Hour < 12 THEN Hour + 12 ELSE Hour
  ELSE IF Contains(Lower, <<"a","m">>) THEN ExtractNumber(Lower)
  ELSE 12

RelativeDate(Lower, Result) ==
  IF Contains(Lower, <<"a","t">>) THEN MakeDateTime(Result.day, ExtractHour(Lower)) ELSE Result

ParseDateTime(Input, now) ==
  LET Lower == TrimStartAndEnd(ToLower(Input))
  IN  IF Contains(Lower, <<"t","o","m","o","r","r","o","w">>)
      THEN RelativeDate(Lower, [now EXCEPT !.day = @ + 1])
      ELSE IF Contains(Lower, <<"t","o","d","a","y">>)
      THEN RelativeDate(Lower, now)
      ELSE MinValue

ParseDuration(Input) ==
  LET Lower == TrimStartAndEnd(ToLower(Input))
      Number == ExtractNumber(Lower)
  IN  IF Number <= 0 THEN 0
      ELSE IF Contains(Lower, <<"h","o","u","r">>) THEN Mul32(Number, 60)
      ELSE Number

AffirmativeWords ==
  { <<"y","e","s">>, <<"y","e","a","h">>, <<"y","e","p">>, <<"s","u","r","e">>,
    <<"o","k">>, <<"o","k","a","y">>, <<"y">>, <<"c","o","n","f","i","r","m">>,
    <<"c","o","r","r","e","c","t">>, <<"r","i","g","h","t">> }

IsAffirmative(Answer) == TrimStartAndEnd(ToLower(Answer)) \in AffirmativeWords

\* FDateTime::ToString("%B %d, %Y at %I:%M %p"); the calendar date is the day number
FormatDateTime(dt) ==
  LET h12 == IF dt.hour % 12 = 0 THEN 12 ELSE dt.hour % 12
  IN  <<"day ">> \o IntToStr(dt.day) \o <<" at ">> \o TwoDigits(h12) \o <<":">>
      \o TwoDigits(dt.minute) \o <<IF dt.hour < 12 THEN " AM" ELSE " PM">>

\* FDateTime::ToIso8601()
ToIso8601(dt) ==
  <<"day">> \o IntToStr(dt.day) \o <<"T">> \o TwoDigits(dt.hour) \o <<":">>
  \o TwoDigits(dt.minute) \o <<":00.000Z">>

GenerateConfirmationMessage(ev) ==
  <<"Here's what I have:\n\n">>
  \o <<"[event] ">> \o ev.EventName \o <<"\n">>
  \o <<"[time] ">> \o FormatDateTime(ev.DateTime) \o <<"\n">>
  \o <<"[duration] Duration: ">> \o IntToStr(ev.DurationMinutes) \o <<" minutes\n">>
  \o (IF ev.Location # <<>> THEN <<"[place] ">> \o ev.Location \o <<"\n">> ELSE <<>>)
  \o (IF ev.Notes # <<>> THEN <<"[notes] ">> \o ev.Notes \o <<"\n">> ELSE <<>>)
  \o <<"[priority] Priority: ">> \o IntToStr(ev.Priority) \o <<"/10\n\n">>
  \o <<"Should I create this event?">>

\* The text AskCurrentQuestion composes in state st for record ev
QuestionText(st, ev) ==
  CASE st = "AskingEventName" -> <<"What would you like to call this event?">>
    [] st = "AskingDateTime" ->
         <<"When would you like to schedule it? (e.g., 'tomorrow at 2pm', 'November 5 at 3:30pm')">>
    [] st = "AskingDuration" -> <<"How long will it take? (e.g., '1 hour', '30 minutes')">>
    [] st = "AskingLocation" -> <<"Where will this take place? (or say 'none')">>
    [] st = "AskingNotes" -> <<"Any notes or details? (or say 'none')">>
    [] st = "AskingPriority" ->
         <<"How important is this event? (1-10, where 10 is most important)">>
    [] st = "Confirming" -> GenerateConfirmationMessage(ev)

AskingStates ==
  {"AskingEventName", "AskingDateTime", "AskingDuration", "AskingLocation",
   "AskingNotes", "AskingPriority", "Confirming"}

\* The JSON text SendEventToBackend builds
EventJSON(ev) ==
  <<"{">>
  \o <<"\"type\":\"create_calendar_event\",">>
  \o <<"\"eventName\":\"">> \o ev.EventName \o <<"\",">>
  \o <<"\"dateTime\":\"">> \o ToIso8601(ev.DateTime) \o <<"\",">>
  \o <<"\"durationMinutes\":">> \o IntToStr(ev.DurationMinutes) \o <<",">>
  \o <<"\"location\":\"">> \o ev.Location \o <<"\",">>
  \o <<"\"notes\":\"">> \o ev.Notes \o <<"\",">>
  \o <<"\"priority\":">> \o IntToStr(ev.Priority)
  \o <<"}">>

\* ------------------------------------------------------------------------
\* The component's methods.  A method works on the record m of what it can
\* read and change: st = CurrentState, ev = EventData, the broadcasts made
\* so far by the running call (asked, created, cancelled), the payloads
\* handed to the manager (sent), and the history of the flow.
\* ------------------------------------------------------------------------
AskCurrentQuestion(m) ==
  IF m.st \in AskingStates
  THEN [m EXCEPT !.asked = Append(@, QuestionText(m.st, m.ev))]
  ELSE m

\* StartEventCreation refusing to start while a flow is in progress
DoStartEventCreationGuarded(m) ==
  IF m.st # "Idle"
  THEN m
  ELSE AskCurrentQuestion([m EXCEPT !.ev = FCalendarEventData, !.st = "AskingEventName",
                                    !.confirmed = FALSE, !.handoffs = 0])

\* StartEventCreation clearing only the flag of the record
DoStartEventCreationKeepsRecord(m) ==
  AskCurrentQuestion([m EXCEPT !.ev.bIsValid = FALSE, !.st = "AskingEventName",
                               !.confirmed = FALSE, !.handoffs = 0])

DoStartEventCreation(m) ==
  AskCurrentQuestion([m EXCEPT !.ev = FCalendarEventData, !.st = "AskingEventName",
                               !.confirmed = FALSE, !.handoffs = 0])

\* the listener of a delegate runs inside Broadcast, on what the call has done
Heard(m, restarts) == IF restarts THEN DoStartEventCreation(m) ELSE m

\* CancelFlow without the reset of EventData
DoCancelFlowKeepsRecord(m) ==
  [m EXCEPT !.st = "Idle", !.cancelled = @ + 1]

\* CancelFlow doing nothing when no flow is in progress
DoCancelFlowGuarded(m) ==
  IF m.st = "Idle"
  THEN m
  ELSE [m EXCEPT !.st = "Idle", !.ev = FCalendarEventData, !.cancelled = @ + 1]

DoCancelFlow(m) ==
  Heard([m EXCEPT !.st = "Idle", !.ev = FCalendarEventData, !.cancelled = @ + 1],
        Listeners.OnFlowCancelled)

ProcessEventName(m, Answer) ==
  IF Answer = <<>> \/ Len(Answer) < 2
  THEN [ok |-> FALSE, m |-> m]
  ELSE [ok |-> TRUE, m |-> [m EXCEPT !.ev.EventName = TrimStartAndEnd(Answer)]]

ProcessDateTime(m, Answer, now) ==
  LET ParsedDateTime == ParseDateTime(Answer, now)
  IN  IF ParsedDateTime = CheckFailed
      THEN [ok |-> FALSE, m |-> [m EXCEPT !.aborted = TRUE]]
      ELSE IF ParsedDateTime = MinValue
      THEN [ok |-> FALSE, m |-> m]
      ELSE [ok |-> TRUE, m |-> [m EXCEPT !.ev.DateTime = ParsedDateTime]]

\* ProcessDuration storing the parsed value before it is validated
ProcessDurationStoresFirst(m, Answer) ==
  LET Minutes == ParseDuration(Answer)
      stored == [m EXCEPT !.ev.DurationMinutes = Minutes]
  IN  IF Minutes <= 0
      THEN [ok |-> FALSE, m |-> stored]
      ELSE [ok |-> TRUE, m |-> stored]

ProcessDuration(m, Answer) ==
  LET Minutes == ParseDuration(Answer)
  IN  IF Minutes <= 0
      THEN [ok |-> FALSE, m |-> m]
      ELSE [ok |-> TRUE, m |-> [m EXCEPT !.ev.DurationMinutes = Minutes]]

SkipWords == { <<"n","o","n","e">>, <<"n","o">>, <<"s","k","i","p">> }

\* ProcessLocation comparing the skip words without ToLower
ProcessLocationCaseSensitive(m, Answer) ==
  LET Trimmed == TrimStartAndEnd(Answer)
  IN  [ok |-> TRUE,
       m |-> [m EXCEPT !.ev.Location =
                IF Trimmed \in SkipWords THEN <<>> ELSE TrimStartAndEnd(Answer)]]

ProcessLocation(m, Answer) ==
  LET Trimmed == ToLower(TrimStartAndEnd(Answer))
  IN  [ok |-> TRUE,
       m |-> [m EXCEPT !.ev.Location =
                IF Trimmed \in SkipWords THEN <<>> ELSE TrimStartAndEnd(Answer)]]

\* ProcessNotes copied from ProcessLocation with the field not renamed
ProcessNotesWritesLocation(m, Answer) ==
  LET Trimmed == ToLower(TrimStartAndEnd(Answer))
  IN  [ok |-> TRUE,
       m |-> [m EXCEPT !.ev.Location =
                IF Trimmed \in SkipWords THEN <<>> ELSE TrimStartAndEnd(Answer)]]

ProcessNotes(m, Answer) ==
  LET Trimmed == ToLower(TrimStartAndEnd(Answer))
  IN  [ok |-> TRUE,
       m |-> [m EXCEPT !.ev.Notes =
                IF Trimmed \in SkipWords THEN <<>> ELSE TrimStartAndEnd(Answer)]]

ProcessPriority(m, Answer) ==
  LET Priority == ExtractNumber(Answer)
  IN  IF Priority < 1 \/ Priority > 10
      THEN [ok |-> FALSE, m |-> m]
      ELSE [ok |-> TRUE, m |-> [m EXCEPT !.ev.Priority = Priority]]

\* ProcessConfirmation without the assignment of bIsValid
ProcessConfirmationNoFlag(m, Answer) ==
  LET bConfirmed == IsAffirmative(Answer)
  IN  IF ~bConfirmed
      THEN [ok |-> FALSE, m |-> DoCancelFlow(m)]
      ELSE [ok |-> TRUE, m |-> [m EXCEPT !.confirmed = TRUE]]

\* ProcessConfirmation treating a decline as an invalid answer: no CancelFlow
ProcessConfirmationAsksAgain(m, Answer) ==
  LET bConfirmed == IsAffirmative(Answer)
  IN  IF ~bConfirmed
      THEN [ok |-> FALSE, m |-> m]
      ELSE [ok |-> TRUE, m |-> [m EXCEPT !.ev.bIsValid = TRUE, !.confirmed = TRUE]]

ProcessConfirmation(m, Answer) ==
  LET bConfirmed == IsAffirmative(Answer)
  IN  IF ~bConfirmed
      THEN [ok |-> FALSE, m |-> DoCancelFlow(m)]
      ELSE [ok |-> TRUE, m |-> [m EXCEPT !.ev.bIsValid = TRUE, !.confirmed = TRUE]]

ProcessAnswer(m, Answer, now) ==
  CASE m.st = "AskingEventName" -> ProcessEventName(m, Answer)
    [] m.st = "AskingDateTime" -> ProcessDateTime(m, Answer, now)
    [] m.st = "AskingDuration" -> ProcessDuration(m, Answer)
    [] m.st = "AskingLocation" -> ProcessLocation(m, Answer)
    [] m.st = "AskingNotes" -> ProcessNotes(m, Answer)
    [] m.st = "AskingPriority" -> ProcessPriority(m, Answer)
    [] m.st = "Confirming" -> ProcessConfirmation(m, Answer)
    [] OTHER -> [ok |-> FALSE, m |-> m]

\* found = FoundActors.Num(); an actor found is an AAICompanionManager, so the
\* cast of FoundActors[0] succeeds
SendEventToBackend(m, found) ==
  IF found = 0
  THEN m
  ELSE Heard([m EXCEPT !.sent = Append(@, EventJSON(m.ev)),
                       !.created = Append(@, m.ev),
                       !.handoffs = @ + 1],
             Listeners.OnEventCreated)

\* AdvanceToNextState with the break of case AskingPriority missing: the case
\* falls through into case Confirming
AdvanceToNextStateFallsThrough(m, found) ==
  CASE m.st = "AskingEventName" -> AskCurrentQuestion([m EXCEPT !.st = "AskingDateTime"])
    [] m.st = "AskingDateTime" -> AskCurrentQuestion([m EXCEPT !.st = "AskingDuration"])
    [] m.st = "AskingDuration" -> AskCurrentQuestion([m EXCEPT !.st = "AskingLocation"])
    [] m.st = "AskingLocation" -> AskCurrentQuestion([m EXCEPT !.st = "AskingNotes"])
    [] m.st = "AskingNotes" -> AskCurrentQuestion([m EXCEPT !.st = "AskingPriority"])
    [] m.st \in {"AskingPriority", "Confirming"} ->
         [SendEventToBackend([m EXCEPT !.st = "Creating"], found) EXCEPT !.st = "Idle"]
    [] OTHER -> [m EXCEPT !.st = "Idle"]

\* AdvanceToNextState with case AskingLocation assigning the wrong next state
AdvanceToNextStateSkipsNotes(m, found) ==
  CASE m.st = "AskingEventName" -> AskCurrentQuestion([m EXCEPT !.st = "AskingDateTime"])
    [] m.st = "AskingDateTime" -> AskCurrentQuestion([m EXCEPT !.st = "AskingDuration"])
    [] m.st = "AskingDuration" -> AskCurrentQuestion([m EXCEPT !.st = "AskingLocation"])
    [] m.st = "AskingLocation" -> AskCurrentQuestion([m EXCEPT !.st = "AskingPriority"])
    [] m.st = "AskingNotes" -> AskCurrentQuestion([m EXCEPT !.st = "AskingPriority"])
    [] m.st = "AskingPriority" -> AskCurrentQuestion([m EXCEPT !.st = "Confirming"])
    [] m.st = "Confirming" ->
         [SendEventToBackend([m EXCEPT !.st = "Creating"], found) EXCEPT !.st = "Idle"]
    [] OTHER -> [m EXCEPT !.st = "Idle"]

AdvanceToNextState(m, found) ==
  CASE m.st = "AskingEventName" -> AskCurrentQuestion([m EXCEPT !.st = "AskingDateTime"])
    [] m.st = "AskingDateTime" -> AskCurrentQuestion([m EXCEPT !.st = "AskingDuration"])
    [] m.st = "AskingDuration" -> AskCurrentQuestion([m EXCEPT !.st = "AskingLocation"])
    [] m.st = "AskingLocation" -> AskCurrentQuestion([m EXCEPT !.st = "AskingNotes"])
    [] m.st = "AskingNotes" -> AskCurrentQuestion([m EXCEPT !.st = "AskingPriority"])
    [] m.st = "AskingPriority" -> AskCurrentQuestion([m EXCEPT !.st = "Confirming"])
    [] m.st = "Confirming" ->
         [SendEventToBackend([m EXCEPT !.st = "Creating"], found) EXCEPT !.st = "Idle"]
    [] OTHER -> [m EXCEPT !.st = "Idle"]

\* ProcessUserResponse taking a response in Idle as the request to start a flow
DoProcessUserResponseStartsFlow(m, Response, now, found) ==
  IF m.st = "Idle"
  THEN DoStartEventCreation(m)
  ELSE LET r == ProcessAnswer(m, Response, now)
       IN  IF r.m.aborted THEN r.m
           ELSE IF r.ok THEN AdvanceToNextState(r.m, found) ELSE AskCurrentQuestion(r.m)

DoProcessUserResponse(m, Response, now, found) ==
  IF m.st = "Idle"
  THEN m
  ELSE LET r == ProcessAnswer(m, Response, now)
       IN  IF r.m.aborted THEN r.m
           ELSE IF r.ok THEN AdvanceToNextState(r.m, found) ELSE AskCurrentQuestion(r.m)

\* ------------------------------------------------------------------------
\* The state machine: one action per public call, plus the environment
\* ------------------------------------------------------------------------
\* what a call starts from: the component's fields and no broadcast yet
Entry ==
  [st |-> CurrentState, ev |-> EventData, asked |-> <<>>, created |-> <<>>,
   cancelled |-> 0, sent |-> <<>>, confirmed |-> flowConfirmed, handoffs |-> flowHandoffs,
   aborted |-> FALSE]

\* The scripted run: StartEventCreation, then these answers in this order
HappyPath == <<sDentist, sTomorrow2pm, sOneHour, sNone, sNone, sEight, sYes>>

\* run.pos = k: the calls so far are StartEventCreation and the first k-1
\* answers of HappyPath, and nothing else; run.day is the day the date answer
\* was given, run.found the number of managers found when "yes" was given
RunStep(op, arg) ==
  IF op = "StartEventCreation" THEN [pos |-> 1, day |-> 0, found |-> 0]
  ELSE IF op = "ProcessUserResponse" /\ run.pos \in 1..7 /\ arg = HappyPath[run.pos]
  THEN [pos |-> run.pos + 1,
        day |-> IF run.pos = 2 THEN Now.day ELSE run.day,
        found |-> IF run.pos = 7 THEN FoundActors ELSE 0]
  ELSE [pos |-> 0, day |-> 0, found |-> 0]

\* the question of the call that entered the state the component is left in
EntryQuestionStep(m, op) ==
  IF m.st = "Idle" THEN <<>>
  ELSE IF m.st # CurrentState \/ op = "StartEventCreation"
  THEN (IF m.asked = <<>> THEN <<>> ELSE m.asked[Len(m.asked)])
  ELSE entryQuestion

Return(m, op, arg) ==
  /\ ~Engine.Aborted
  /\ Engine' = [Engine EXCEPT !.Aborted = m.aborted]
  /\ CurrentState' = m.st
  /\ EventData' = m.ev
  /\ asked' = m.asked
  /\ created' = m.created
  /\ cancelled' = m.cancelled
  /\ sent' = m.sent
  /\ flowConfirmed' = m.confirmed
  /\ flowHandoffs' = m.handoffs
  /\ entryQuestion' = EntryQuestionStep(m, op)
  /\ run' = RunStep(op, arg)
  /\ lastCall' = [op |-> op, arg |-> arg, from |-> CurrentState]
  /\ UNCHANGED <<FoundActors, Now, Listeners>>
  /\ UNCHANGED mgr

\* the manager actor as constructed, before any event of the transport
ManagerConstructed(memory) ==
  [bIsConnected |-> FALSE, bEnableMemory |-> memory, wsConnected |-> FALSE,
   timers |-> 0, lastEvent |-> [kind |-> "none"], wsSent |-> <<>>,
   aiResponses |-> <<>>, statusChanges |-> <<>>, conversations |-> <<>>,
   nEstablished |-> 0, nRegisters |-> 0]

Bound(onCreated, onCancelled) ==
  [OnEventCreated |-> onCreated, OnFlowCancelled |-> onCancelled]

EngineBuild(saturates, check) ==
  [AtoiSaturates |-> saturates, DoCheck |-> check, Aborted |-> FALSE]

DialogueInit ==
  /\ CurrentState = "Idle"
  /\ EventData = FCalendarEventData
  /\ FoundActors \in {0, 1}
  /\ Now = [day |-> 1, hour |-> 9, minute |-> 30]
  /\ lastCall = [op |-> "none", arg |-> <<>>, from |-> "Idle"]
  /\ asked = <<>>
  /\ created = <<>>
  /\ cancelled = 0
  /\ sent = <<>>
  /\ flowConfirmed = FALSE
  /\ flowHandoffs = 0
  /\ entryQuestion = <<>>
  /\ run = [pos |-> 0, day |-> 0, found |-> 0]

Init ==
  /\ DialogueInit
  /\ Listeners = Bound(FALSE, FALSE)
  /\ Engine = EngineBuild(TRUE, TRUE)
  /\ mgr = ManagerConstructed(TRUE)

StartEventCreation == Return(DoStartEventCreation(Entry), "StartEventCreation", <<>>)

ProcessUserResponseOf(Texts) ==
  \E Response \in Texts :
    Return(DoProcessUserResponse(Entry, Response, Now, FoundActors),
           "ProcessUserResponse", Response)

ProcessUserResponse == ProcessUserResponseOf(Answers)

CancelFlow == Return(DoCancelFlow(Entry), "CancelFlow", <<>>)

\* the clock advances between calls
Tick ==
  /\ Now.day < MaxDay
  /\ Now' = [Now EXCEPT !.day = @ + 1]
  /\ UNCHANGED <<CurrentState, EventData, FoundActors, lastCall, asked, created,
                 cancelled, sent, flowConfirmed, flowHandoffs, entryQuestion, run,
                 Listeners, Engine>>
  /\ UNCHANGED mgr

\* the manager actor is placed in, or removed from, the level
WorldChange ==
  /\ FoundActors' = 1 - FoundActors
  /\ UNCHANGED <<CurrentState, EventData, Now, lastCall, asked, created,
                 cancelled, sent, flowConfirmed, flowHandoffs, entryQuestion, run,
                 Listeners, Engine>>
  /\ UNCHANGED mgr

Next ==
  \/ StartEventCreation
  \/ ProcessUserResponse
  \/ CancelFlow
  \/ Tick
  \/ WorldChange

Spec == Init /\ [][Next]_vars

\* The same component answered with the texts of TextAnswers
TextProcessUserResponse == ProcessUserResponseOf(TextAnswers)

NextText ==
  \/ StartEventCreation
  \/ TextProcessUserResponse
  \/ CancelFlow
  \/ Tick
  \/ WorldChange

SpecText == Init /\ [][NextText]_vars

\* The same component answered with the texts of ParseAnswers, on either build
ParseProcessUserResponse == ProcessUserResponseOf(ParseAnswers)

InitParse ==
  /\ DialogueInit
  /\ Listeners = Bound(FALSE, FALSE)
  /\ Engine \in {EngineBuild(saturates, TRUE) : saturates \in BOOLEAN}
  /\ mgr = ManagerConstructed(TRUE)

NextParse ==
  \/ StartEventCreation
  \/ ParseProcessUserResponse
  \/ CancelFlow

SpecParse == InitParse /\ [][NextParse]_vars

\* The same component answered with the texts of WordAnswers
WordProcessUserResponse == ProcessUserResponseOf(WordAnswers)

NextWord ==
  \/ StartEventCreation
  \/ WordProcessUserResponse
  \/ CancelFlow
  \/ Tick

InitWord ==
  /\ DialogueInit
  /\ Listeners = Bound(FALSE, FALSE)
  /\ Engine \in {EngineBuild(TRUE, check) : check \in BOOLEAN}
  /\ mgr = ManagerConstructed(TRUE)

SpecWord == InitWord /\ [][NextWord]_vars

\* The same component with listeners that start a flow from inside a broadcast
ReentrantAnswers == {sDentist, sTomorrow2pm, sEight, sYes, sNo}

ReentrantProcessUserResponse == ProcessUserResponseOf(ReentrantAnswers)

InitReentrant ==
  /\ DialogueInit
  /\ Listeners \in {Bound(onCreated, onCancelled) : onCreated, onCancelled \in BOOLEAN}
  /\ Engine = EngineBuild(TRUE, TRUE)
  /\ mgr = ManagerConstructed(TRUE)

NextReentrant ==
  \/ StartEventCreation
  \/ ReentrantProcessUserResponse
  \/ CancelFlow

SpecReentrant == InitReentrant /\ [][NextReentrant]_vars

\* ------------------------------------------------------------------------
\* The message router: AAICompanionManager and the transport it listens to.
\* A handler works on the record g of the manager's state (see mgr).
\* ------------------------------------------------------------------------
PlayerID == "PLAYER-1"

AnyText == "hello"

ProbeText == "Hello from Unreal Engine!"

MessageTypes ==
  {"connected", "registered", "chat_response", "voice_processed", "error", "pong"}

\* A decoded inbound message: valid = FJsonSerializer::Deserialize succeeded,
\* type = the "type" member ("none": absent, "unknown": not a known kind),
\* hasText = the kind's text member (text, transcription, error) is present
InboundMessage(valid, type, hasText) ==
  [valid |-> valid, type |-> type, hasText |-> hasText,
   text |-> IF hasText THEN AnyText ELSE ""]

NoMessage == InboundMessage(FALSE, "none", FALSE)

InboundMessages ==
  {NoMessage}
  \cup {InboundMessage(TRUE, t, FALSE) : t \in MessageTypes \cup {"none", "unknown"}}
  \cup {InboundMessage(TRUE, t, TRUE) : t \in {"chat_response", "voice_processed", "error"}}

Event(kind, msg, flag) == [kind |-> kind, msg |-> msg, flag |-> flag]

\* an event starts with nothing sent and nothing broadcast yet
BeginEvent(g, ev) ==
  [g EXCEPT !.lastEvent = ev, !.wsSent = <<>>, !.aiResponses = <<>>,
            !.statusChanges = <<>>, !.conversations = <<>>]

Payload(type, field, value) == [type |-> type, field |-> field, value |-> value]

RegisterPlayerUnguarded(g) ==
  [g EXCEPT !.wsSent = Append(@, Payload("register", "playerId", PlayerID)),
            !.nRegisters = @ + 1]

RegisterPlayer(g) ==
  IF ~g.wsConnected
  THEN g
  ELSE [g EXCEPT !.wsSent = Append(@, Payload("register", "playerId", PlayerID)),
                 !.nRegisters = @ + 1]

SendTestMessageUnguarded(g, Message) ==
  [g EXCEPT !.wsSent = Append(@, Payload("chat", "text", Message))]

SendTestMessage(g, Message) ==
  IF ~g.wsConnected
  THEN g
  ELSE [g EXCEPT !.wsSent = Append(@, Payload("chat", "text", Message))]

HandleWebSocketMessageSetsFlag(g, Message) ==
  IF ~Message.valid THEN g
  ELSE CASE Message.type = "connected" -> [RegisterPlayer(g) EXCEPT !.bIsConnected = TRUE]
         [] Message.type = "registered" -> [g EXCEPT !.timers = @ + 1]
         [] Message.type = "chat_response" ->
              IF Message.hasText
              THEN [g EXCEPT !.conversations =
                               IF g.bEnableMemory
                               THEN Append(@, <<"Assistant", Message.text, "">>)
                               ELSE @,
                             !.aiResponses = Append(@, Message.text)]
              ELSE g
         [] OTHER -> g

HandleWebSocketMessageAlwaysStores(g, Message) ==
  IF ~Message.valid THEN g
  ELSE CASE Message.type = "connected" -> RegisterPlayer(g)
         [] Message.type = "registered" -> [g EXCEPT !.timers = @ + 1]
         [] Message.type = "chat_response" ->
              IF Message.hasText
              THEN [g EXCEPT !.conversations =
                               Append(@, <<"Assistant", Message.text, "">>),
                             !.aiResponses = Append(@, Message.text)]
              ELSE g
         [] OTHER -> g

HandleWebSocketMessageForwardsUnknown(g, Message) ==
  IF ~Message.valid THEN g
  ELSE CASE Message.type = "connected" -> RegisterPlayer(g)
         [] Message.type = "registered" -> [g EXCEPT !.timers = @ + 1]
         [] Message.type = "chat_response" ->
              IF Message.hasText
              THEN [g EXCEPT !.conversations =
                               IF g.bEnableMemory
                               THEN Append(@, <<"Assistant", Message.text, "">>)
                               ELSE @,
                             !.aiResponses = Append(@, Message.text)]
              ELSE g
         [] OTHER -> [g EXCEPT !.aiResponses = Append(@, Message.text)]

HandleWebSocketMessage(g, Message) ==
  IF ~Message.valid THEN g
  ELSE CASE Message.type = "connected" -> RegisterPlayer(g)
         [] Message.type = "registered" -> [g EXCEPT !.timers = @ + 1]
         [] Message.type = "chat_response" ->
              IF Message.hasText
              THEN [g EXCEPT !.conversations =
                               IF g.bEnableMemory
                               THEN Append(@, <<"Assistant", Message.text, "">>)
                               ELSE @,
                             !.aiResponses = Append(@, Message.text)]
              ELSE g
         [] OTHER -> g

HandleConnectionStatusChange(g, bConnected) ==
  [g EXCEPT !.bIsConnected = bConnected, !.statusChanges = Append(@, bConnected)]

HandleWebSocketError(g) ==
  [g EXCEPT !.bIsConnected = FALSE, !.statusChanges = Append(@, FALSE)]

\* the transport changes its own state before it raises OnConnected(bConnected)
TransportConnected(g, bConnected) ==
  [g EXCEPT !.wsConnected = bConnected,
            !.nEstablished = IF bConnected /\ ~g.wsConnected THEN @ + 1 ELSE @]

\* a transport error may close the connection
TransportError(g, closes) ==
  [g EXCEPT !.wsConnected = @ /\ ~closes]

\* WebSocketManager->OnMessage
OnMessage ==
  \E Message \in InboundMessages :
    /\ ~Engine.Aborted
    /\ Message.type = "registered" => mgr.timers < MaxTimers
    /\ Message.type = "connected" => mgr.nRegisters < MaxRegisters
    /\ mgr' = HandleWebSocketMessage(BeginEvent(mgr, Event("message", Message, FALSE)),
                                     Message)
    /\ UNCHANGED dlgVars

\* WebSocketManager->OnConnected
OnConnected ==
  \E bConnected \in BOOLEAN :
    /\ ~Engine.Aborted
    /\ (bConnected /\ ~mgr.wsConnected) => mgr.nEstablished < MaxConnects
    /\ mgr' = HandleConnectionStatusChange(
                TransportConnected(BeginEvent(mgr, Event("connected", NoMessage, bConnected)),
                                   bConnected),
                bConnected)
    /\ UNCHANGED dlgVars

\* WebSocketManager->OnError
OnError ==
  \E closes \in BOOLEAN :
    /\ ~Engine.Aborted
    /\ mgr' = HandleWebSocketError(
                TransportError(BeginEvent(mgr, Event("error", NoMessage, FALSE)), closes))
    /\ UNCHANGED dlgVars

\* the timer set on "registered" fires
TimerFires ==
  /\ ~Engine.Aborted
  /\ mgr.timers > 0
  /\ mgr' = SendTestMessage(
              [BeginEvent(mgr, Event("timer", NoMessage, FALSE)) EXCEPT !.timers = @ - 1],
              ProbeText)
  /\ UNCHANGED dlgVars

SendChatMessage ==
  /\ ~Engine.Aborted
  /\ mgr' = SendTestMessage(BeginEvent(mgr, Event("chat", NoMessage, FALSE)), AnyText)
  /\ UNCHANGED dlgVars

RouterAnswers == {sDentist, sYes}

RouterProcessUserResponse == ProcessUserResponseOf(RouterAnswers)

InitRouter ==
  /\ DialogueInit
  /\ FoundActors = 1
  /\ Listeners = Bound(FALSE, FALSE)
  /\ Engine = EngineBuild(TRUE, TRUE)
  /\ mgr \in {ManagerConstructed(memory) : memory \in BOOLEAN}

NextRouter ==
  \/ OnMessage
  \/ OnConnected
  \/ OnError
  \/ TimerFires
  \/ SendChatMessage
  \/ StartEventCreation
  \/ RouterProcessUserResponse
  \/ CancelFlow

SpecRouter == InitRouter /\ [][NextRouter]_vars

\* ------------------------------------------------------------------------
\* Properties
\* ------------------------------------------------------------------------
\* A step that is the public call op: the environment's steps change the
\* clock or the level, a call changes neither and records itself in lastCall.
CallStep(op) == Now' = Now /\ FoundActors' = FoundActors /\ lastCall'.op = op

AnyCallStep == Now' = Now /\ FoundActors' = FoundActors

NoBroadcast == asked' = <<>> /\ created' = <<>> /\ cancelled' = 0 /\ sent' = <<>>

\* the rule by which the state st turns the answer down
Rejects(st, Answer, now) ==
  CASE st = "AskingEventName" -> Len(Answer) < 2
    [] st = "AskingDateTime" -> ParseDateTime(Answer, now) = MinValue
    [] st = "AskingDuration" -> ParseDuration(Answer) <= 0
    [] st = "AskingPriority" -> ExtractNumber(Answer) \notin 1..10
    [] OTHER -> FALSE

\* C1: in a state other than Confirming and Idle, a ProcessUserResponse whose
\* answer fails the state's validation leaves CurrentState and EventData
\* unchanged and broadcasts exactly one question, the same text as the one
\* broadcast when the state was entered.
C1_InvalidAnswerAsksAgain ==
  [][(/\ CallStep("ProcessUserResponse")
      /\ CurrentState \in AskingStates \ {"Confirming"}
      /\ Rejects(CurrentState, lastCall'.arg, Now))
     => (/\ CurrentState' = CurrentState
         /\ EventData' = EventData
         /\ asked' = <<entryQuestion>>
         /\ created' = <<>> /\ cancelled' = 0 /\ sent' = <<>>)]_vars

C1_Witness ==
  /\ lastCall.op = "ProcessUserResponse"
  /\ lastCall.from = "AskingDuration"
  /\ lastCall.arg = sDentist
  /\ CurrentState = "AskingDuration"
  /\ EventData.EventName # <<>>
  /\ asked = <<entryQuestion>>

\* the one call that hands a record off: an affirmative answer in Confirming
\* while a manager is in the level
IsHandoffCall ==
  /\ lastCall'.op = "ProcessUserResponse"
  /\ CurrentState = "Confirming"
  /\ IsAffirmative(lastCall'.arg)
  /\ FoundActors > 0

HappyRecord(d) ==
  [EventName |-> sDentist, DateTime |-> [day |-> d + 1, hour |-> 14, minute |-> 0],
   DurationMinutes |-> 60, Location |-> <<>>, Notes |-> <<>>, Priority |-> 8,
   bIsValid |-> TRUE]

HappyRunDone == run.pos = 8

C4_IdleHasEmptyRecord == CurrentState = "Idle" => EventData = FCalendarEventData

\* C5: in Confirming an answer that is not an affirmative word cancels the
\* flow: Idle, record cleared, one OnFlowCancelled, no hand-off, no question;
\* a StartEventCreation that follows yields an empty record and the first
\* question.
C5_DeclineCancels ==
  [][/\ (/\ CallStep("ProcessUserResponse")
         /\ CurrentState = "Confirming"
         /\ TrimStartAndEnd(ToLower(lastCall'.arg)) \notin AffirmativeWords)
        => (/\ CurrentState' = "Idle"
            /\ EventData' = FCalendarEventData
            /\ cancelled' = 1
            /\ asked' = <<>> /\ created' = <<>> /\ sent' = <<>>)
     /\ (/\ CallStep("StartEventCreation")
         /\ lastCall.op = "ProcessUserResponse"
         /\ lastCall.from = "Confirming"
         /\ TrimStartAndEnd(ToLower(lastCall.arg)) \notin AffirmativeWords)
        => (/\ CurrentState' = "AskingEventName"
            /\ EventData' = FCalendarEventData
            /\ asked' = <<QuestionText("AskingEventName", FCalendarEventData)>>)]_vars

C5_Witness ==
  /\ lastCall.op = "ProcessUserResponse"
  /\ lastCall.from = "Confirming"
  /\ lastCall.arg = sNo
  /\ CurrentState = "Idle"
  /\ cancelled = 1

\* C6: CancelFlow in any state other than Idle leaves the engine in Idle with
\* a fresh record and broadcasts exactly one OnFlowCancelled and nothing else.
C6_CancelFromAnyState ==
  [][(CallStep("CancelFlow") /\ CurrentState # "Idle")
     => (/\ CurrentState' = "Idle"
         /\ EventData' = FCalendarEventData
         /\ cancelled' = 1
         /\ asked' = <<>> /\ created' = <<>> /\ sent' = <<>>)]_vars

C6_Witness ==
  /\ lastCall.op = "CancelFlow"
  /\ lastCall.from = "AskingNotes"
  /\ CurrentState = "Idle"
  /\ cancelled = 1

\* the state after st in the linear order; Idle follows Confirming
Successor(st) ==
  CASE st = "AskingEventName" -> "AskingDateTime"
    [] st = "AskingDateTime" -> "AskingDuration"
    [] st = "AskingDuration" -> "AskingLocation"
    [] st = "AskingLocation" -> "AskingNotes"
    [] st = "AskingNotes" -> "AskingPriority"
    [] st = "AskingPriority" -> "Confirming"
    [] st = "Confirming" -> "Idle"
    [] OTHER -> "Idle"

\* C7: a state change by ProcessUserResponse goes to the next state of the
\* order AskingEventName .. Confirming, Idle; an accepted answer advances one
\* step; StartEventCreation goes to AskingEventName and CancelFlow to Idle;
\* Creating and Complete are never the state between calls.
C7_LinearOrder ==
  [][/\ CurrentState' \in AskingStates \cup {"Idle"}
     /\ (CallStep("ProcessUserResponse") /\ CurrentState' # CurrentState)
          => CurrentState' = Successor(CurrentState)
     /\ (/\ CallStep("ProcessUserResponse")
         /\ CurrentState \in AskingStates \ {"Confirming"}
         /\ ~Rejects(CurrentState, lastCall'.arg, Now))
          => CurrentState' = Successor(CurrentState)
     /\ CallStep("StartEventCreation") => CurrentState' = "AskingEventName"
     /\ CallStep("CancelFlow") => CurrentState' = "Idle"]_vars

C7_Witness ==
  /\ lastCall.op = "ProcessUserResponse"
  /\ lastCall.from = "AskingPriority"
  /\ CurrentState = "Confirming"

\* C8 as stated: StartEventCreation in a state other than Idle changes neither
\* the state nor the record and broadcasts no question.
C8_StartInFlowIsNoOp ==
  [][(CallStep("StartEventCreation") /\ CurrentState # "Idle")
     => (CurrentState' = CurrentState /\ EventData' = EventData /\ asked' = <<>>)]_vars

\* C8 amended: StartEventCreation in a state other than Idle discards the
\* partly built record and starts over: fresh record, AskingEventName, and
\* exactly one question, the first one.
C8_StartInFlowRestarts ==
  [][(CallStep("StartEventCreation") /\ CurrentState # "Idle")
     => (/\ CurrentState' = "AskingEventName"
         /\ EventData' = FCalendarEventData
         /\ asked' = <<QuestionText("AskingEventName", FCalendarEventData)>>
         /\ created' = <<>> /\ cancelled' = 0 /\ sent' = <<>>)]_vars

C8_Witness ==
  /\ lastCall.op = "StartEventCreation"
  /\ lastCall.from = "AskingLocation"
  /\ CurrentState = "AskingEventName"
  /\ EventData = FCalendarEventData
  /\ Len(asked) = 1

\* C9: StartEventCreation in Idle (at first, and after a completed, cancelled
\* or declined flow) makes EventData a fresh record with complete=false, sets
\* AskingEventName and broadcasts exactly one question, the event-name one.
C9_StartFromIdle ==
  [][(CallStep("StartEventCreation") /\ CurrentState = "Idle")
     => (/\ CurrentState' = "AskingEventName"
         /\ EventData' = FCalendarEventData
         /\ ~EventData'.bIsValid
         /\ asked' = <<QuestionText("AskingEventName", FCalendarEventData)>>
         /\ created' = <<>> /\ cancelled' = 0 /\ sent' = <<>>)]_vars

C9_Witness ==
  /\ lastCall.op = "StartEventCreation"
  /\ lastCall.from = "Idle"
  /\ run.pos = 1
  /\ CurrentState = "AskingEventName"
  /\ EventData = FCalendarEventData
  /\ Len(asked) = 1

\* C10: ProcessUserResponse in Idle does nothing, whatever the answer: Idle
\* stays, EventData is unchanged and nothing is broadcast or sent.
C10_ResponseInIdleIgnored ==
  [][(CallStep("ProcessUserResponse") /\ CurrentState = "Idle")
     => (CurrentState' = "Idle" /\ EventData' = EventData /\ NoBroadcast)]_vars

C10_Witness ==
  /\ lastCall.op = "ProcessUserResponse"
  /\ lastCall.from = "Idle"
  /\ lastCall.arg = sYes
  /\ CurrentState = "Idle"
  /\ EventData.bIsValid

\* C11: in every state of a flow past AskingEventName the stored name is
\* non-empty and has at least 2 characters after trimming, because
\* AskingEventName accepts only such answers.
C11_NameHasTwoChars ==
  CurrentState \in AskingStates \ {"AskingEventName"}
    => /\ EventData.EventName # <<>>
       /\ Len(TrimStartAndEnd(EventData.EventName)) >= 2

\* the asking states in their order, and the record field each of them fills
StateOrder ==
  <<"AskingEventName", "AskingDateTime", "AskingDuration", "AskingLocation",
    "AskingNotes", "AskingPriority", "Confirming">>

FieldOrder ==
  <<"EventName", "DateTime", "DurationMinutes", "Location", "Notes", "Priority", "bIsValid">>

Position(st) == CHOOSE i \in 1..7 : StateOrder[i] = st

\* the state st takes the answer
Accepts(st, Answer, now) ==
  IF st = "Confirming" THEN IsAffirmative(Answer) ELSE ~Rejects(st, Answer, now)

\* C12: an accepted answer changes no field of the record but the one of the
\* current state, and while a flow is in progress the fields of the current
\* state and of the states after it hold the values of a fresh record.
C12_OnlyOwnFieldWritten ==
  [][/\ (/\ CallStep("ProcessUserResponse")
         /\ CurrentState \in AskingStates
         /\ Accepts(CurrentState, lastCall'.arg, Now))
        => \A i \in 1..7 :
             i # Position(CurrentState)
               => EventData'[FieldOrder[i]] = EventData[FieldOrder[i]]
     /\ CurrentState' \in AskingStates
        => \A i \in Position(CurrentState')..7 :
             EventData'[FieldOrder[i]] = FCalendarEventData[FieldOrder[i]]]_vars

C12_Witness ==
  /\ lastCall.op = "ProcessUserResponse"
  /\ lastCall.from = "AskingNotes"
  /\ lastCall.arg = sDentist
  /\ CurrentState = "AskingPriority"
  /\ EventData.Notes = sDentist
  /\ EventData.Location = sOneHour
  /\ EventData.Priority = 5

\* C13: the flag bIsValid is false in every state AskingEventName through
\* Confirming, and every record broadcast on OnEventCreated has it true.
C13_ValidOnlyAfterConfirmation ==
  /\ CurrentState \in AskingStates => ~EventData.bIsValid
  /\ \A i \in 1..Len(created) : created[i].bIsValid

C13_Witness ==
  /\ lastCall.op = "ProcessUserResponse"
  /\ lastCall.from = "Confirming"
  /\ lastCall.arg = sOkPadded
  /\ Len(created) = 1
  /\ created[1].bIsValid

\* C14: an affirmative answer in Confirming while no manager is found makes
\* no hand-off and no OnEventCreated, keeps the collected record, and leaves
\* the flow in progress so that a further affirmative answer tries again.
C14_MissingTargetKeepsFlow ==
  [][(/\ CallStep("ProcessUserResponse")
      /\ CurrentState = "Confirming"
      /\ IsAffirmative(lastCall'.arg)
      /\ FoundActors = 0)
     => (/\ sent' = <<>>
         /\ created' = <<>>
         /\ \A i \in 1..6 : EventData'[FieldOrder[i]] = EventData[FieldOrder[i]]
         /\ CurrentState' = "Confirming")]_vars

\* A JSON reader on a payload: the tokens that open or close a string begin
\* with a double quote, a backslash escapes the character after it.
BeginsWithQuote(tok) ==
  tok \in {"\"", "\",", "\"eventName\":\"", "\"dateTime\":\"", "\"location\":\"",
           "\"notes\":\"", "\"type\":\"create_calendar_event\","}

\* the characters of the string that starts at toks[1], up to its closing quote
RECURSIVE ReadString(_)
ReadString(toks) ==
  IF toks = <<>> THEN <<>>
  ELSE IF BeginsWithQuote(Head(toks)) THEN <<>>
  ELSE IF Head(toks) = "\\" /\ Len(toks) >= 2
  THEN <<toks[2]>> \o ReadString(Tail(Tail(toks)))
  ELSE <<Head(toks)>> \o ReadString(Tail(toks))

\* the value of the string member whose key and opening quote are the token key
DecodeField(payload, key) ==
  IF \E i \in 1..Len(payload) : payload[i] = key
  THEN LET i == CHOOSE j \in 1..Len(payload) :
                  payload[j] = key /\ \A k \in 1..(j - 1) : payload[k] # key
       IN  ReadString(SubSeq(payload, i + 1, Len(payload)))
  ELSE <<>>

\* C15: decoding a create_calendar_event payload gives back exactly the
\* stored name, location and notes, whatever characters the user entered.
C15_PayloadDecodesToRecord ==
  \A i \in 1..Len(sent) :
    /\ DecodeField(sent[i], "\"eventName\":\"") = created[i].EventName
    /\ DecodeField(sent[i], "\"location\":\"") = created[i].Location
    /\ DecodeField(sent[i], "\"notes\":\"") = created[i].Notes

\* a step of the router handling an event of the given kind
MgrStep(kind) == mgr' # mgr /\ mgr'.lastEvent.kind = kind

\* a step of the router handling a decoded inbound message of the given type
MessageStep(type) ==
  /\ MgrStep("message")
  /\ mgr'.lastEvent.msg.valid
  /\ mgr'.lastEvent.msg.type = type

RECURSIVE CountType(_, _)
CountType(payloads, type) ==
  IF payloads = <<>> THEN 0
  ELSE (IF Head(payloads).type = type THEN 1 ELSE 0) + CountType(Tail(payloads), type)

\* C16: the number of register payloads sent never exceeds the number of
\* times the connection was established.
C16_RegisterOncePerConnection == mgr.nRegisters <= mgr.nEstablished

\* C16 (amended): one register payload is sent for each inbound connected
\* message handled while the transport is connected, and none at any other
\* step, whatever the number of connection establishments.
C16_RegisterPerConnectedMessage ==
  [][IF MessageStep("connected") /\ mgr.wsConnected
     THEN /\ mgr'.nRegisters = mgr.nRegisters + 1
          /\ mgr'.wsSent = <<Payload("register", "playerId", PlayerID)>>
     ELSE /\ mgr'.nRegisters = mgr.nRegisters
          /\ mgr' # mgr => CountType(mgr'.wsSent, "register") = 0]_vars

C16_Witness ==
  /\ mgr.nEstablished = 1
  /\ mgr.nRegisters = 2
  /\ mgr.lastEvent.msg.type = "connected"
  /\ CountType(mgr.wsSent, "register") = 1

\* the step is a send attempt: a chat send, the deferred probe, a registration
SendAttempt ==
  \/ MgrStep("chat")
  \/ MgrStep("timer")
  \/ MessageStep("connected")

\* C17: a send attempted while the transport is disconnected hands nothing
\* to the transport and leaves the dialogue state and EventData unchanged;
\* nothing is flushed when the connection comes back, and a later send hands
\* over its own payload only.
C17_DisconnectedSendDropped ==
  [][/\ (SendAttempt /\ ~mgr.wsConnected) =>
          (mgr'.wsSent = <<>> /\ UNCHANGED dlgVars)
     /\ MgrStep("connected") => mgr'.wsSent = <<>>
     /\ (MgrStep("chat") /\ mgr.wsConnected) =>
          mgr'.wsSent = <<Payload("chat", "text", AnyText)>>
     /\ (MgrStep("timer") /\ mgr.wsConnected) =>
          mgr'.wsSent = <<Payload("chat", "text", ProbeText)>>]_vars

\* the probe fired after a disconnect, during a flow
C17_Witness ==
  /\ mgr.lastEvent.kind = "timer"
  /\ ~mgr.wsConnected
  /\ mgr.nEstablished > 0
  /\ mgr.wsSent = <<>>
  /\ CurrentState # "Idle"

\* C18: the value returned by IsConnected() changes only when a
\* connected-changed event is handled, and then equals that event's value.
C18_FlagWrittenOnlyByStatusHandler ==
  [][mgr'.bIsConnected # mgr.bIsConnected =>
       (MgrStep("connected") /\ mgr'.bIsConnected = mgr'.lastEvent.flag)]_vars

\* C18 (amended): the value returned by IsConnected() is written by the
\* connected-changed handler, to the event's value, and by the transport-error
\* handler, to false, and by nothing else.
C18_FlagWrittenByStatusAndErrorHandlers ==
  [][/\ MgrStep("connected") => mgr'.bIsConnected = mgr'.lastEvent.flag
     /\ MgrStep("error") => mgr'.bIsConnected = FALSE
     /\ mgr'.bIsConnected # mgr.bIsConnected =>
          (MgrStep("connected") \/ MgrStep("error"))]_vars

\* a transport error that left the transport connected cleared the flag
C18_Witness ==
  /\ mgr.lastEvent.kind = "error"
  /\ mgr.wsConnected
  /\ ~mgr.bIsConnected
  /\ mgr.statusChanges = <<FALSE>>

ChatResponseStep == MessageStep("chat_response") /\ mgr'.lastEvent.msg.hasText

\* C19: a chat_response carrying text is forwarded exactly once to the
\* conversation history and exactly once to OnAIResponseReceived, and the
\* dialogue state and EventData are unchanged.
C19_ChatResponseForwardedOnce ==
  [][ChatResponseStep =>
       /\ Len(mgr'.conversations) = 1
       /\ mgr'.aiResponses = <<mgr'.lastEvent.msg.text>>
       /\ UNCHANGED dlgVars]_vars

\* C19 (amended): a chat_response carrying text is forwarded exactly once to
\* OnAIResponseReceived; it is forwarded exactly once to the conversation
\* history when the memory system is enabled and not at all when it is
\* disabled; the dialogue state and EventData are unchanged.
C19_ChatResponseForwardedOnceIfMemory ==
  [][ChatResponseStep =>
       /\ mgr'.conversations =
            IF mgr.bEnableMemory
            THEN <<(<<"Assistant", mgr'.lastEvent.msg.text, "">>)>>
            ELSE <<>>
       /\ mgr'.aiResponses = <<mgr'.lastEvent.msg.text>>
       /\ UNCHANGED dlgVars]_vars

\* a chat_response was handled during a flow, with the memory system disabled
C19_Witness ==
  /\ mgr.lastEvent.kind = "message"
  /\ mgr.lastEvent.msg.type = "chat_response"
  /\ mgr.lastEvent.msg.hasText
  /\ ~mgr.bEnableMemory
  /\ mgr.aiResponses = <<AnyText>>
  /\ mgr.conversations = <<>>
  /\ CurrentState = "AskingDateTime"

\* C20: a voice_processed or error message emits a notification on the
\* UI-facing surface, and leaves the connection flag and the dialogue state
\* unchanged.
C20_VoiceAndErrorForwarded ==
  [][(MessageStep("voice_processed") \/ MessageStep("error")) =>
       /\ mgr'.aiResponses # <<>> \/ mgr'.statusChanges # <<>>
       /\ mgr'.bIsConnected = mgr.bIsConnected
       /\ UNCHANGED dlgVars]_vars

\* a step of the router handling an inbound message that is undecodable, has
\* no type, has an unrecognized type, or is a pong
DroppedMessageStep ==
  /\ MgrStep("message")
  /\ \/ ~mgr'.lastEvent.msg.valid
     \/ mgr'.lastEvent.msg.type \in {"none", "unknown", "pong"}

\* C21: an inbound message that is undecodable, has no type, has an
\* unrecognized type, or is a pong sends no payload, emits no UI notification,
\* and leaves the connection flag, every other field of the router and the
\* dialogue unchanged, so that the messages after it are handled as they
\* would have been without it.
C21_MalformedMessageDropped ==
  [][DroppedMessageStep =>
       /\ mgr'.wsSent = <<>>
       /\ mgr'.aiResponses = <<>>
       /\ mgr'.statusChanges = <<>>
       /\ mgr'.conversations = <<>>
       /\ mgr'.bIsConnected = mgr.bIsConnected
       /\ mgr' = BeginEvent(mgr, mgr'.lastEvent)
       /\ UNCHANGED dlgVars]_vars

\* an unrecognized message was dropped on a connected session during a flow
\* with the probe timer pending
C21_Witness ==
  /\ mgr.lastEvent.kind = "message"
  /\ mgr.lastEvent.msg.valid
  /\ mgr.lastEvent.msg.type = "unknown"
  /\ mgr.wsConnected
  /\ mgr.bIsConnected
  /\ mgr.timers = 1
  /\ mgr.aiResponses = <<>>
  /\ CurrentState = "AskingDateTime"

\* the first maximal run of digit characters of s, <<>> if s has no digit
FirstRun(s) ==
  LET digits == {i \in 1..Len(s) : IsDigit(s[i])}
  IN  IF digits = {} THEN <<>>
      ELSE LET first == CHOOSE i \in digits : \A k \in digits : i <= k
               last == CHOOSE j \in first..Len(s) :
                         /\ \A k \in first..j : IsDigit(s[k])
                         /\ j = Len(s) \/ ~IsDigit(s[j + 1])
           IN  SubSeq(s, first, last)

\* the decimal numeral of the integer a digit run denotes: no leading zero
RECURSIVE Numeral(_)
Numeral(ds) ==
  IF ds = <<>> THEN <<"0">>
  ELSE IF Head(ds) = "0" /\ Len(ds) > 1 THEN Numeral(Tail(ds))
  ELSE ds

\* the decimal numeral of an int32
Decimal(n) == IF n < 0 THEN <<"-">> ELSE IntToStr(n)

\* the text given to the last ProcessUserResponse call
IsResponse == lastCall.op = "ProcessUserResponse"

\* C25: ExtractNumber returns the value of the first maximal run of digit
\* characters of its input, and 0 when the input has no digit.
C25_ExtractNumberIsFirstRun ==
  IsResponse => Decimal(ExtractNumber(lastCall.arg)) = Numeral(FirstRun(lastCall.arg))

\* C22: for an input whose first digit run is the positive integer N,
\* ParseDuration returns N*60 when the input contains hour and N otherwise;
\* it returns 0 when there is no digit or N is 0; AskingDuration accepts
\* exactly the answers with a result above 0, and the stored duration is
\* above 0 in every reachable state.
C22_ParseDurationValue ==
  /\ EventData.DurationMinutes > 0
  /\ IsResponse =>
       LET Lower == TrimStartAndEnd(ToLower(lastCall.arg))
           N == Numeral(FirstRun(Lower))
           Minutes == ParseDuration(lastCall.arg)
       IN  /\ IF N = <<"0">> THEN Minutes = 0
              ELSE IF Contains(Lower, <<"h","o","u","r">>)
              THEN Minutes > 0 /\ Minutes % 60 = 0 /\ Decimal(Minutes \div 60) = N
              ELSE Decimal(Minutes) = N
           /\ lastCall.from = "AskingDuration" =>
                /\ (CurrentState = "AskingLocation") = (Minutes > 0)
                /\ (CurrentState = "AskingDuration") = ~(Minutes > 0)
                /\ Minutes > 0 => EventData.DurationMinutes = Minutes

\* the numerals of 1..10
OneToTen == {IntToStr(n) : n \in 1..10}

\* C24: AskingPriority accepts an answer if and only if the integer formed
\* by the first digit run of the text lies in 1..10; the stored priority is
\* in 1..10 in every reachable state.
C24_PriorityAcceptedIffInRange ==
  /\ EventData.Priority \in 1..10
  /\ (IsResponse /\ lastCall.from = "AskingPriority") =>
       /\ (CurrentState = "Confirming") = (Numeral(FirstRun(lastCall.arg)) \in OneToTen)
       /\ (CurrentState = "AskingPriority") = (Numeral(FirstRun(lastCall.arg)) \notin OneToTen)

\* the lower-cased answer of the call being made names tomorrow / today only
TomorrowPhrase(Answer) == Contains(ToLower(Answer), <<"t","o","m","o","r","r","o","w">>)

TodayPhrase(Answer) ==
  Contains(ToLower(Answer), <<"t","o","d","a","y">>) /\ ~TomorrowPhrase(Answer)

\* C23: whenever AskingDateTime accepts an answer the stored timestamp has
\* its clock hour in 0..23 and its day is the current day for a today phrase
\* and the following day for a tomorrow phrase; an answer that is not
\* accepted leaves the state and the record unchanged.
C23_AcceptedDateIsValid ==
  [][(CallStep("ProcessUserResponse") /\ CurrentState = "AskingDateTime") =>
       \/ /\ CurrentState' = "AskingDuration"
          /\ EventData'.DateTime.hour \in 0..23
          /\ EventData'.DateTime.minute \in 0..59
          /\ EventData'.DateTime # MinValue
          /\ \/ TomorrowPhrase(lastCall'.arg) /\ EventData'.DateTime.day = Now.day + 1
             \/ TodayPhrase(lastCall'.arg) /\ EventData'.DateTime.day = Now.day
       \/ /\ CurrentState' = "AskingDateTime"
          /\ EventData' = EventData
          /\ ~Engine'.Aborted]_vars

\* what AskingLocation and AskingNotes store for an answer
Normalized(Answer) ==
  IF ToLower(TrimStartAndEnd(Answer)) \in {sNone, sNo, sSkip}
  THEN <<>>
  ELSE TrimStartAndEnd(Answer)

\* C26: every answer given in AskingLocation, and in AskingNotes, advances
\* the state by one step and stores the empty string when the trimmed answer
\* is none, no or skip in any letter case, and the trimmed answer otherwise.
C26_LocationAndNotesNeverReject ==
  [][/\ (CallStep("ProcessUserResponse") /\ CurrentState = "AskingLocation") =>
          /\ CurrentState' = "AskingNotes"
          /\ EventData' = [EventData EXCEPT !.Location = Normalized(lastCall'.arg)]
     /\ (CallStep("ProcessUserResponse") /\ CurrentState = "AskingNotes") =>
          /\ CurrentState' = "AskingPriority"
          /\ EventData' = [EventData EXCEPT !.Notes = Normalized(lastCall'.arg)]]_vars

\* a skip word was given as the location and "Today" as the notes
C26_Witness ==
  /\ CurrentState = "AskingPriority"
  /\ lastCall.from = "AskingNotes"
  /\ lastCall.arg = sToday
  /\ EventData.Location = <<>>
  /\ EventData.Notes = sToday

\* C27: with a manager in the level, every ProcessUserResponse call made in a
\* state other than Idle emits exactly one notification among OnAskQuestion,
\* OnEventCreated and OnFlowCancelled: a question before Confirming, a
\* hand-off or a cancellation in Confirming.
C27_OneNotificationPerResponse ==
  [][(CallStep("ProcessUserResponse") /\ CurrentState # "Idle" /\ FoundActors > 0) =>
       /\ Len(asked') + Len(created') + cancelled' = 1
       /\ CurrentState # "Confirming" => Len(asked') = 1
       /\ CurrentState = "Confirming" =>
            IF IsAffirmative(lastCall'.arg) THEN Len(created') = 1 ELSE cancelled' = 1]_vars

\* C28: when the listener of OnEventCreated or of OnFlowCancelled calls
\* StartEventCreation from inside the broadcast made by a ProcessUserResponse
\* call, the call returns with the engine in AskingEventName, a fresh record,
\* and the first question emitted exactly once.
C28_FlowStartedByListenerKept ==
  [][(/\ CallStep("ProcessUserResponse")
      /\ \/ created' # <<>> /\ Listeners.OnEventCreated
         \/ cancelled' > 0 /\ Listeners.OnFlowCancelled) =>
       /\ CurrentState' = "AskingEventName"
       /\ EventData' = FCalendarEventData
       /\ asked' = <<QuestionText("AskingEventName", FCalendarEventData)>>]_vars

\* C29: OnFlowCancelled is emitted only by a call made while a flow is in
\* progress, and CancelFlow called in Idle emits nothing and changes nothing.
C29_CancelOnlyInFlow ==
  [][AnyCallStep =>
       /\ cancelled' > 0 => CurrentState # "Idle"
       /\ (lastCall'.op = "CancelFlow" /\ CurrentState = "Idle") =>
            (cancelled' = 0 /\ EventData' = EventData /\ CurrentState' = "Idle")]_vars

\* the call declines the confirmation
IsDeclineCall ==
  /\ lastCall'.op = "ProcessUserResponse"
  /\ CurrentState = "Confirming"
  /\ ~IsAffirmative(lastCall'.arg)

\* C29 (amended): every CancelFlow call, in Idle as in any other state,
\* leaves the engine in Idle with a fresh record and emits OnFlowCancelled
\* once and nothing else; OnFlowCancelled is emitted by CancelFlow calls and
\* by declined confirmations only.
C29_CancelAlwaysEmits ==
  [][AnyCallStep =>
       /\ lastCall'.op = "CancelFlow" =>
            /\ CurrentState' = "Idle"
            /\ EventData' = FCalendarEventData
            /\ cancelled' = 1
            /\ asked' = <<>> /\ created' = <<>> /\ sent' = <<>>
       /\ cancelled' = (IF lastCall'.op = "CancelFlow" \/ IsDeclineCall THEN 1 ELSE 0)]_vars

\* CancelFlow was called in Idle and emitted OnFlowCancelled
C29_Witness ==
  /\ lastCall.op = "CancelFlow"
  /\ lastCall.from = "Idle"
  /\ cancelled = 1
  /\ CurrentState = "Idle"
  /\ EventData = FCalendarEventData

====
